---- MODULE Spec2Model ----
(***************************************************************************)
(* Model of story_mcp_server (src/server.py): three MCP tools, each of     *)
(* which opens an httpx.AsyncClient, POSTs one JSON body to the Story API  *)
(* through _api_post, and returns json.dumps of what _api_post gave back.  *)
(*                                                                         *)
(* An invocation suspends once, at `await client.post(...)` (line 50).     *)
(* Everything before it (Invoke) and everything after it (Respond) runs    *)
(* without yielding, so each is one action.                                *)
(*                                                                         *)
(* Texts are modelled by their syntax: an upstream body is a record of its *)
(* exact characters (raw) and of its parse (shape, layout, members of      *)
(* lexemes); a Python value is a record of its type and repr.  json_loads  *)
(* and json_dumps convert between the two the way Python's json module     *)
(* does, so that a round trip is not the identity.                         *)
(***************************************************************************)
EXTENDS Integers, Sequences, FiniteSets, TLC

VARIABLES pc, tool, arg, client, open, nextClient, sent, outcome, result

vars == <<pc, tool, arg, client, open, nextClient, sent, outcome, result>>

\* Number of invocations the host protocol makes; invocation i is the i-th to arrive.
NumCalls == 2

Calls == 1..NumCalls

\* src/server.py:29
API_BASE == "http://103.42.50.33:8000"

\* src/server.py:44-47, seconds allowed to each of connect, read, write, pool
TIMEOUT_S == 600

ToolNames == {"generate_story", "generate_episodic_beats_from_file", "ask_vector_db"}

\* The calls the host makes: a tool and its string argument (prompt / file_path).
HostCalls ==
    {<<"generate_story", "Tell me a story">>,
     <<"generate_episodic_beats_from_file", "./x.txt">>,
     <<"ask_vector_db", "Tell me a story">>,
     <<"ask_vector_db", "./x.txt">>}

(***************************************************************************)
(* Texts and Python values                                                 *)
(***************************************************************************)

\* One JSON token: lex is "string", "number" or "literal"; text is a sequence
\* of string fragments (a string token's text is the string it denotes).
Lexeme(lex, text) == [lex |-> lex, text |-> text]

PyStr(frags) == [type |-> "str", repr |-> frags]
PyBool(b) == [type |-> "bool", repr |-> <<IF b THEN "True" ELSE "False">>]
PyInt(digits) == [type |-> "int", repr |-> digits]
PyFloat(r) == [type |-> "float", repr |-> r]
PyNone == [type |-> "NoneType", repr |-> <<"None">>]

\* A dict of scalars: type "dict", items a function from keys to scalars.
PyDict(f) == [type |-> "dict", items |-> f]

NoData == PyDict(<<>>)

\* Upstream bodies: raw is the exact text on the wire.
StoryBody ==
    [raw |-> "{\"story\":\"Once\",\"episodes\":3,\"rating\":4.50}",
     shape |-> "object", layout |-> "compact",
     members |-> ("story" :> Lexeme("string", <<"Once">>)
                  @@ "episodes" :> Lexeme("number", <<"3">>)
                  @@ "rating" :> Lexeme("number", <<"4.50">>))]

DeclaredFailureBody ==
    [raw |-> "{\n  \"success\": false\n}",
     shape |-> "object", layout |-> "indent2",
     members |-> ("success" :> Lexeme("literal", <<"false">>))]

HugeNumberBody ==
    [raw |-> "{\"story\":\"Once\",\"score\":1e999}",
     shape |-> "object", layout |-> "compact",
     members |-> ("story" :> Lexeme("string", <<"Once">>)
                  @@ "score" :> Lexeme("number", <<"1e999">>))]

NotFoundBody ==
    [raw |-> "{\"detail\":\"Not Found\"}",
     shape |-> "object", layout |-> "compact",
     members |-> ("detail" :> Lexeme("string", <<"Not Found">>))]

PlainTextBody ==
    [raw |-> "Internal Server Error",
     shape |-> "garbage", layout |-> "raw", members |-> <<>>]

EmptyBody == [raw |-> "", shape |-> "garbage", layout |-> "raw", members |-> <<>>]

\* A text the tool returns (its characters are determined by these fields).
NoText == [shape |-> "none", layout |-> "", members |-> <<>>]

(***************************************************************************)
(* json.loads / json.dumps (Python's json module, as r.json() and          *)
(* json.dumps(..., ensure_ascii=False) use it)                             *)
(***************************************************************************)

\* Number lexemes with neither fraction nor exponent parse to int.
IntLexemes == {<<"3">>, <<"0">>}

\* float(lexeme): the nearest double, inf beyond the double range.
float_of(text) ==
    CASE text = <<"4.50">> -> <<"4.5">>
      [] text = <<"1e999">> -> <<"inf">>
      [] text = <<"0.0">> -> <<"0.0">>
      [] OTHER -> text

\* json.loads accepts a text iff it is an object of tokens it knows; besides
\* RFC 8259's tokens it knows the constants NaN, Infinity and -Infinity.
loads_accepts(body) == body.shape = "object"

loads_token(tok) ==
    CASE tok.lex = "string" -> PyStr(tok.text)
      [] tok.lex = "number" ->
            IF tok.text \in IntLexemes THEN PyInt(tok.text) ELSE PyFloat(float_of(tok.text))
      [] tok.text = <<"true">> -> PyBool(TRUE)
      [] tok.text = <<"false">> -> PyBool(FALSE)
      [] tok.text = <<"null">> -> PyNone
      [] tok.text = <<"NaN">> -> PyFloat(<<"nan">>)
      [] tok.text = <<"Infinity">> -> PyFloat(<<"inf">>)
      [] OTHER -> PyFloat(<<"-inf">>)

json_loads(body) == PyDict([k \in DOMAIN body.members |-> loads_token(body.members[k])])

\* float.__repr__ for finite floats; allow_nan defaults to True, so the
\* non-finite floats are written as the bare words NaN, Infinity, -Infinity.
dumps_scalar(v) ==
    CASE v.type = "str" -> Lexeme("string", v.repr)
      [] v.type = "int" -> Lexeme("number", v.repr)
      [] v.type = "bool" -> Lexeme("literal", <<IF v.repr = <<"True">> THEN "true" ELSE "false">>)
      [] v.type = "NoneType" -> Lexeme("literal", <<"null">>)
      [] v.repr = <<"inf">> -> Lexeme("literal", <<"Infinity">>)
      [] v.repr = <<"-inf">> -> Lexeme("literal", <<"-Infinity">>)
      [] v.repr = <<"nan">> -> Lexeme("literal", <<"NaN">>)
      [] OTHER -> Lexeme("number", v.repr)

json_dumps(data, layout) ==
    [shape |-> "object", layout |-> layout,
     members |-> [k \in DOMAIN data.items |-> dumps_scalar(data.items[k])]]

(***************************************************************************)
(* Exceptions and upstream outcomes                                        *)
(***************************************************************************)

NoResponse == [status |-> 0, body |-> EmptyBody]

Response(status, body) == [status |-> status, body |-> body]

\* An exception object: its class, str(e), and e.response (HTTPStatusError only).
Exc(cls, msg) == [cls |-> cls, msg |-> msg, response |-> NoResponse]

NoExc == Exc("", <<>>)

TimeoutClasses == {"ConnectTimeout", "ReadTimeout", "WriteTimeout", "PoolTimeout"}

\* The classes an exception of class cls is an instance of (httpx's and the
\* standard library's hierarchies, as the except clauses see them).
Bases(cls) ==
    CASE cls \in TimeoutClasses ->
            {cls, "TimeoutException", "TransportError", "RequestError", "HTTPError", "Exception"}
      [] cls = "ConnectError" ->
            {cls, "NetworkError", "TransportError", "RequestError", "HTTPError", "Exception"}
      [] cls = "HTTPStatusError" -> {cls, "HTTPError", "Exception"}
      [] cls = "JSONDecodeError" -> {cls, "ValueError", "Exception"}
      [] cls = "RuntimeError" -> {cls, "Exception"}
      [] OTHER -> {}

isinstance(e, cls) == cls \in Bases(e.cls)

\* What client.post raises when a phase runs out of time, or the connection fails.
PostExceptions ==
    {Exc(c, <<"timed out">>) : c \in TimeoutClasses}
    \cup {Exc("ConnectError", <<"All connection attempts failed">>)}

\* What the upstream answers when it answers.
Responses ==
    {Response(200, b) : b \in {StoryBody, DeclaredFailureBody, HugeNumberBody, EmptyBody}}
    \cup {Response(500, PlainTextBody), Response(404, NotFoundBody)}

\* An exception raised inside _api_post that none of its except clauses
\* converts (raised while one of them runs, after the POST); it leaves
\* _api_post and reaches the tool's own except clause.
HandlerFault == Exc("RuntimeError", <<"handler failed">>)

\* The outcome of one POST: the exception client.post raised, or the response
\* it returned, or the exception that escapes _api_post.
Outcome(exc, response, escaped) == [exc |-> exc, response |-> response, escaped |-> escaped]

NoOutcome == Outcome(NoExc, NoResponse, NoExc)

Outcomes ==
    {Outcome(e, NoResponse, NoExc) : e \in PostExceptions}
    \cup {Outcome(NoExc, r, NoExc) : r \in Responses}
    \cup {Outcome(NoExc, NoResponse, HandlerFault)}

(***************************************************************************)
(* _api_post                                                               *)
(***************************************************************************)

\* Response.is_success, which raise_for_status tests.
is_success(status) == 200 <= status /\ status < 300

\* r.raise_for_status(): the exception it raises, NoExc on 2xx.
raise_for_status(r) ==
    IF is_success(r.status)
    THEN NoExc
    ELSE [cls |-> "HTTPStatusError",
          msg |-> <<"status ", ToString(r.status)>>,
          response |-> r]

\* The try block, lines 50-58: the exception that leaves it (NoExc if none)
\* and the value it returns.
try_block(o) ==
    IF o.exc # NoExc THEN [exc |-> o.exc, data |-> NoData]
    ELSE IF raise_for_status(o.response) # NoExc
    THEN [exc |-> raise_for_status(o.response), data |-> NoData]
    ELSE IF ~loads_accepts(o.response.body)
    THEN [exc |-> Exc("JSONDecodeError", <<"Expecting value: line 1 column 1 (char 0)">>),
          data |-> NoData]
    ELSE [exc |-> NoExc, data |-> json_loads(o.response.body)]

\* Variant of except_clause with the catch-all clause written first.
except_clause_first_catch_all(e) ==
    IF isinstance(e, "Exception") THEN "other"
    ELSE IF isinstance(e, "TimeoutException") THEN "timeout"
    ELSE IF isinstance(e, "HTTPStatusError") THEN "status"
    ELSE "none"

\* The except clause that handles e: the first, in source order, that matches.
except_clause(e) ==
    IF isinstance(e, "TimeoutException") THEN "timeout"
    ELSE IF isinstance(e, "HTTPStatusError") THEN "status"
    ELSE IF isinstance(e, "Exception") THEN "other"
    ELSE "none"

\* Lines 59-65.
timeout_doc ==
    PyDict("error" :> PyStr(<<"Request timed out. The API is taking longer than expected. Please try again.">>)
           @@ "error_type" :> PyStr(<<"timeout">>)
           @@ "success" :> PyBool(FALSE))

\* Variant of status_doc that leaves error_details out.
status_doc_no_details(e) ==
    PyDict("error" :> PyStr(<<"API returned error: ", ToString(e.response.status)>>)
           @@ "success" :> PyBool(FALSE))

\* Variant of status_doc that reports str(e) instead of the response body.
status_doc_str_e(e) ==
    PyDict("error" :> PyStr(<<"API returned error: ", ToString(e.response.status)>>)
           @@ "error_details" :> PyStr(e.msg)
           @@ "success" :> PyBool(FALSE))

\* Lines 66-72.
status_doc(e) ==
    PyDict("error" :> PyStr(<<"API returned error: ", ToString(e.response.status)>>)
           @@ "error_details" :> PyStr(<<e.response.body.raw>>)
           @@ "success" :> PyBool(FALSE))

\* Variant of other_doc with a constant, empty error_type.
other_doc_fixed_type(e) ==
    PyDict("error" :> PyStr(<<"Request failed: ">> \o e.msg)
           @@ "error_type" :> PyStr(<<"">>)
           @@ "success" :> PyBool(FALSE))

\* Lines 73-79.
other_doc(e) ==
    PyDict("error" :> PyStr(<<"Request failed: ">> \o e.msg)
           @@ "error_type" :> PyStr(<<e.cls>>)
           @@ "success" :> PyBool(FALSE))

\* _api_post under outcome o: the exception that leaves it (NoExc when it
\* returns) and the dict it returns.
api_post(o) ==
    LET t == try_block(o)
        clause == except_clause(t.exc)
    IN  IF o.escaped # NoExc THEN [exc |-> o.escaped, data |-> NoData]
        ELSE IF t.exc = NoExc THEN [exc |-> NoExc, data |-> t.data]
        ELSE IF clause = "none" THEN [exc |-> t.exc, data |-> NoData]
        ELSE IF clause = "timeout" THEN [exc |-> NoExc, data |-> timeout_doc]
        ELSE IF clause = "status" THEN [exc |-> NoExc, data |-> status_doc(t.exc)]
        ELSE [exc |-> NoExc, data |-> other_doc(t.exc)]

(***************************************************************************)
(* The three tools                                                         *)
(***************************************************************************)

endpoint(t) ==
    CASE t = "generate_story" -> "/story"
      [] t = "generate_episodic_beats_from_file" -> "/episodic_beats_from_file"
      [] OTHER -> "/ask"

\* Variant of body_field that names the key after the tool's parameter.
body_field_prompt(t) ==
    CASE t = "generate_story" -> "prompt"
      [] t = "generate_episodic_beats_from_file" -> "file_path"
      [] OTHER -> "prompt"

\* The one key of the request body.
body_field(t) ==
    CASE t = "generate_story" -> "question"
      [] t = "generate_episodic_beats_from_file" -> "file_path"
      [] OTHER -> "question"

\* The request client.post sends: url is API_BASE followed by the endpoint.
post_request(t, s) ==
    [method |-> "POST",
     url |-> <<API_BASE, endpoint(t)>>,
     json |-> (body_field(t) :> s),
     headers |-> ("Content-Type" :> "application/json"),
     timeout |-> [connect |-> TIMEOUT_S, read |-> TIMEOUT_S,
                  write |-> TIMEOUT_S, pool |-> TIMEOUT_S]]

\* data.get("success") == False: Python's == also equates 0 and 0.0 with False.
success_is_False(data) ==
    /\ "success" \in DOMAIN data.items
    /\ data.items["success"] \in {PyBool(FALSE), PyInt(<<"0">>), PyFloat(<<"0.0">>)}

\* The tool's except clause, lines 112-118 (json.dumps without indent).
unexpected_doc(e) ==
    PyDict("error" :> PyStr(<<"Unexpected error: ">> \o e.msg)
           @@ "error_type" :> PyStr(<<e.cls>>)
           @@ "success" :> PyBool(FALSE))

\* What the tool hands to the host under outcome o: the exception that
\* leaves the tool (NoExc when it returns) and the text it returns.
tool_return(o) ==
    LET g == api_post(o)
    IN  IF g.exc # NoExc
        THEN IF isinstance(g.exc, "Exception")
             THEN [exc |-> NoExc, text |-> json_dumps(unexpected_doc(g.exc), "oneline")]
             ELSE [exc |-> g.exc, text |-> NoText]
        ELSE IF g.data.type = "dict" /\ success_is_False(g.data)
             THEN [exc |-> NoExc, text |-> json_dumps(g.data, "indent2")]
             ELSE [exc |-> NoExc, text |-> json_dumps(g.data, "indent2")]

\* Variant of new_client: one client shared by every invocation.
shared_client(n) == 1

\* httpx.AsyncClient(): a new object each time; n counts the clients made so far.
new_client(n) == n + 1

\* Variant of aexit that closes the client on return only.
aexit_unless_raised(opened, c, raised) == IF raised THEN opened ELSE opened \ {c}

\* `async with` leaves its block, by return or by exception: the client is closed.
aexit(opened, c, raised) == opened \ {c}

\* Variant of can_resume: the upstream calls are served one at a time, in order.
resume_in_turn(i) == pc[i] = "awaiting" /\ \A j \in Calls : j < i => pc[j] # "awaiting"

\* The await at line 50 resumes as soon as this invocation's own POST has an outcome.
can_resume(i) == pc[i] = "awaiting"

(***************************************************************************)
(* State machine                                                           *)
(***************************************************************************)

NoResult == [exc |-> NoExc, text |-> NoText]

Init ==
    /\ pc = [i \in Calls |-> "idle"]
    /\ tool = [i \in Calls |-> ""]
    /\ arg = [i \in Calls |-> ""]
    /\ client = [i \in Calls |-> 0]
    /\ open = {}
    /\ nextClient = 0
    /\ sent = [i \in Calls |-> <<>>]
    /\ outcome = [i \in Calls |-> NoOutcome]
    /\ result = [i \in Calls |-> NoResult]

\* The host invokes tool t with argument s: the tool opens its client, enters
\* _api_post, sends the POST and suspends.
Invoke(i, t, s) ==
    /\ pc[i] = "idle"
    /\ \A j \in Calls : j < i => pc[j] # "idle"
    /\ tool' = [tool EXCEPT ![i] = t]
    /\ arg' = [arg EXCEPT ![i] = s]
    /\ client' = [client EXCEPT ![i] = new_client(nextClient)]
    /\ nextClient' = nextClient + 1
    /\ open' = open \cup {new_client(nextClient)}
    /\ sent' = [sent EXCEPT ![i] = Append(sent[i], post_request(t, s))]
    /\ pc' = [pc EXCEPT ![i] = "awaiting"]
    /\ UNCHANGED <<outcome, result>>

\* The POST of invocation i ends with outcome o: _api_post classifies it, the
\* tool serialises the result, the client is closed and the tool returns.
Respond(i, o) ==
    /\ can_resume(i)
    /\ outcome' = [outcome EXCEPT ![i] = o]
    /\ result' = [result EXCEPT ![i] = tool_return(o)]
    /\ open' = aexit(open, client[i], api_post(o).exc # NoExc)
    /\ pc' = [pc EXCEPT ![i] = "returned"]
    /\ UNCHANGED <<tool, arg, client, nextClient, sent>>

\* Invocation i's POST ends, with whichever outcome.
Complete(i) == \E o \in Outcomes : Respond(i, o)

Next ==
    \E i \in Calls :
        \/ \E c \in HostCalls : Invoke(i, c[1], c[2])
        \/ Complete(i)

Spec == Init /\ [][Next]_vars

(***************************************************************************)
(* Vocabulary of the properties                                            *)
(***************************************************************************)

Returned(i) == pc[i] = "returned"

JsonLiterals == {<<"true">>, <<"false">>, <<"null">>}

\* RFC 8259: a token is a string, a number or one of three literals.
IsJsonToken(tok) == tok.lex \in {"string", "number"} \/ tok.text \in JsonLiterals

\* A text is a syntactically valid JSON document.
IsValidJson(text) ==
    /\ text.shape = "object"
    /\ \A k \in DOMAIN text.members : IsJsonToken(text.members[k])

\* The number a number lexeme denotes, written canonically.
NumberValue(text) == IF text = <<"4.50">> THEN <<"4.5">> ELSE text

\* The JSON value a valid text denotes (layout and number spelling dropped).
JsonValue(text) ==
    [k \in DOMAIN text.members |->
        [lex |-> text.members[k].lex,
         val |-> IF text.members[k].lex = "number"
                 THEN NumberValue(text.members[k].text)
                 ELSE text.members[k].text]]

HasKey(text, k) == k \in DOMAIN text.members

\* The text has member k, and it is the string made of fragments frags.
StringMember(text, k, frags) ==
    HasKey(text, k) /\ text.members[k] = Lexeme("string", frags)

SuccessFalse(text) ==
    HasKey(text, "success") /\ text.members["success"] = Lexeme("literal", <<"false">>)

Mentions(frags, s) == \E n \in DOMAIN frags : frags[n] = s

EndsWith(frags, tail) ==
    /\ Len(frags) >= Len(tail)
    /\ SubSeq(frags, Len(frags) - Len(tail) + 1, Len(frags)) = tail

\* The four kinds of failure of section 7, read off an invocation's outcome.
TimedOut(i) == outcome[i].exc.cls \in TimeoutClasses

Answered(i) == outcome[i].response # NoResponse

StatusFailure(i) == Answered(i) /\ ~is_success(outcome[i].response.status)

Answered2xx(i) == Answered(i) /\ is_success(outcome[i].response.status)

TransportFailure(i) ==
    \/ outcome[i].exc # NoExc /\ ~TimedOut(i) /\ outcome[i].exc.cls # "HTTPStatusError"
    \/ Answered2xx(i) /\ outcome[i].response.body.shape # "object"

DeclaredFailure(i) ==
    /\ Answered2xx(i)
    /\ IsValidJson(outcome[i].response.body)
    /\ SuccessFalse(outcome[i].response.body)

Escaped(i) == outcome[i].escaped # NoExc

(***************************************************************************)
(* Claims                                                                  *)
(***************************************************************************)

\* C1: whatever the outcome of the upstream call, the tool returns (no
\* exception leaves it) and the text it returns is a syntactically valid
\* JSON document.
C1_AlwaysValidJson ==
    \A i \in Calls :
        Returned(i) => result[i].exc = NoExc /\ IsValidJson(result[i].text)

\* C2: when the upstream answers 2xx with a JSON body, the returned text is
\* valid JSON and denotes the same value as the body, a body with
\* success=false included.
C2_PassThrough ==
    \A i \in Calls :
        (Returned(i) /\ Answered2xx(i) /\ IsValidJson(outcome[i].response.body))
        => /\ result[i].exc = NoExc
           /\ IsValidJson(result[i].text)
           /\ JsonValue(result[i].text) = JsonValue(outcome[i].response.body)

\* C3: when a phase of the request times out, the result is a JSON document
\* with success=false, error_type "timeout" and the time-out message, even
\* though the exception also matches the catch-all clause.
C3_Timeout ==
    \A i \in Calls :
        (Returned(i) /\ TimedOut(i))
        => /\ result[i].exc = NoExc
           /\ IsValidJson(result[i].text)
           /\ SuccessFalse(result[i].text)
           /\ StringMember(result[i].text, "error_type", <<"timeout">>)
           /\ StringMember(result[i].text, "error",
                  <<"Request timed out. The API is taking longer than expected. Please try again.">>)

C3_Witness ==
    \E i \in Calls :
        /\ Returned(i) /\ outcome[i].exc.cls = "PoolTimeout"
        /\ isinstance(outcome[i].exc, "Exception")
        /\ StringMember(result[i].text, "error_type", <<"timeout">>)

\* C4: when the upstream answers with a non-2xx status, the result is a JSON
\* document with success=false, an error message that contains the status
\* code, and error_details equal to the raw body text.
C4_StatusError ==
    \A i \in Calls :
        (Returned(i) /\ StatusFailure(i))
        => /\ result[i].exc = NoExc
           /\ IsValidJson(result[i].text)
           /\ SuccessFalse(result[i].text)
           /\ HasKey(result[i].text, "error")
           /\ result[i].text.members["error"].lex = "string"
           /\ Mentions(result[i].text.members["error"].text,
                       ToString(outcome[i].response.status))
           /\ StringMember(result[i].text, "error_details",
                           <<outcome[i].response.body.raw>>)

C4_Witness ==
    \E i \in Calls :
        /\ Returned(i) /\ outcome[i].response = Response(404, NotFoundBody)
        /\ StringMember(result[i].text, "error_details", <<"{\"detail\":\"Not Found\"}">>)
        /\ Mentions(result[i].text.members["error"].text, "404")

\* C5: when the call fails with an exception that is neither a timeout nor
\* an HTTP status error, the result is a JSON document with success=false,
\* an error message that contains str(e), and error_type the non-empty name
\* of the exception's class.
C5_OtherFailure ==
    \A i \in Calls :
        (Returned(i) /\ TransportFailure(i))
        => /\ result[i].exc = NoExc
           /\ IsValidJson(result[i].text)
           /\ SuccessFalse(result[i].text)
           /\ HasKey(result[i].text, "error") /\ HasKey(result[i].text, "error_type")
           /\ result[i].text.members["error"].lex = "string"
           /\ result[i].text.members["error_type"].lex = "string"
           /\ result[i].text.members["error_type"].text # <<"">>
           /\ IF outcome[i].exc # NoExc
              THEN /\ EndsWith(result[i].text.members["error"].text, outcome[i].exc.msg)
                   /\ result[i].text.members["error_type"].text = <<outcome[i].exc.cls>>
              ELSE /\ EndsWith(result[i].text.members["error"].text,
                               <<"Expecting value: line 1 column 1 (char 0)">>)
                   /\ result[i].text.members["error_type"].text = <<"JSONDecodeError">>

C5_Witness ==
    /\ \E i \in Calls :
        /\ Returned(i) /\ outcome[i].exc.cls = "ConnectError"
        /\ StringMember(result[i].text, "error_type", <<"ConnectError">>)
    /\ \E i \in Calls :
        /\ Returned(i) /\ outcome[i].response = Response(200, EmptyBody)
        /\ StringMember(result[i].text, "error_type", <<"JSONDecodeError">>)

\* C6: an invocation with argument s has sent exactly one POST, whatever its
\* outcome: {"question": s} to <base>/story, {"file_path": s} to
\* <base>/episodic_beats_from_file, {"question": s} to <base>/ask.
C6_OnePost ==
    \A i \in Calls :
        IF pc[i] = "idle" THEN sent[i] = <<>>
        ELSE /\ Len(sent[i]) = 1
             /\ sent[i][1].method = "POST"
             /\ tool[i] = "generate_story" =>
                    /\ sent[i][1].url = <<API_BASE, "/story">>
                    /\ sent[i][1].json = ("question" :> arg[i])
             /\ tool[i] = "generate_episodic_beats_from_file" =>
                    /\ sent[i][1].url = <<API_BASE, "/episodic_beats_from_file">>
                    /\ sent[i][1].json = ("file_path" :> arg[i])
             /\ tool[i] = "ask_vector_db" =>
                    /\ sent[i][1].url = <<API_BASE, "/ask">>
                    /\ sent[i][1].json = ("question" :> arg[i])

C6_Witness ==
    /\ \E i \in Calls :
        /\ Returned(i) /\ TimedOut(i) /\ tool[i] = "ask_vector_db"
        /\ arg[i] = "Tell me a story" /\ Len(sent[i]) = 1
    /\ \E i \in Calls :
        /\ Returned(i) /\ StatusFailure(i) /\ tool[i] = "generate_episodic_beats_from_file"
        /\ arg[i] = "./x.txt" /\ Len(sent[i]) = 1

\* What belongs to invocation i alone.
Own(i) == <<tool[i], arg[i], client[i], sent[i], outcome[i], result[i], client[i] \in open>>

\* C7: invocations in flight do not block or affect one another: one that
\* awaits its POST can complete whatever the others are doing, on a client
\* no other invocation holds, and a step of one invocation changes nothing
\* that belongs to another.
C7_Independent ==
    /\ [](\A i \in Calls : pc[i] = "awaiting" => ENABLED Complete(i))
    /\ [](\A i, j \in Calls :
            (i # j /\ pc[i] # "idle" /\ pc[j] # "idle") => client[i] # client[j])
    /\ [][\A i \in Calls : pc'[i] = pc[i] => Own(i)' = Own(i)]_vars

C7_Witness ==
    /\ pc[1] = "awaiting" /\ pc[2] = "returned"
    /\ tool[1] # tool[2]
    /\ client[1] \in open /\ client[2] \notin open

\* C8 as stated: every failure of the four kinds is returned as a JSON
\* document with success=false, a message field and a kind field (either of
\* error_type and error_details counted as the kind field).
C8_AllFourKinds ==
    \A i \in Calls :
        (Returned(i) /\ (TimedOut(i) \/ StatusFailure(i) \/ TransportFailure(i) \/ DeclaredFailure(i)))
        => /\ IsValidJson(result[i].text)
           /\ SuccessFalse(result[i].text)
           /\ HasKey(result[i].text, "error")
           /\ HasKey(result[i].text, "error_type") \/ HasKey(result[i].text, "error_details")

\* C8 amended: a timeout, an HTTP status error and a transport error are
\* returned as a JSON document with success=false, an "error" message and one
\* more field, error_type for a timeout or a transport error and
\* error_details (no error_type) for an HTTP status error; an
\* upstream-declared failure is returned with success=false and exactly the
\* fields the upstream sent, no message or kind field added.
C8_ClassifiedKinds ==
    \A i \in Calls :
        Returned(i) =>
            /\ (TimedOut(i) \/ StatusFailure(i) \/ TransportFailure(i)) =>
                    /\ IsValidJson(result[i].text)
                    /\ SuccessFalse(result[i].text)
                    /\ HasKey(result[i].text, "error")
                    /\ IF StatusFailure(i)
                       THEN DOMAIN result[i].text.members = {"error", "error_details", "success"}
                       ELSE DOMAIN result[i].text.members = {"error", "error_type", "success"}
            /\ DeclaredFailure(i) =>
                    /\ SuccessFalse(result[i].text)
                    /\ DOMAIN result[i].text.members = DOMAIN outcome[i].response.body.members

C8_Witness ==
    /\ \E i \in Calls :
        /\ Returned(i) /\ DeclaredFailure(i)
        /\ ~HasKey(result[i].text, "error")
    /\ \E i \in Calls :
        /\ Returned(i) /\ StatusFailure(i)
        /\ ~HasKey(result[i].text, "error_type")

\* C9: every invocation has a client of its own, open while the invocation
\* awaits its POST and closed once it has returned, on every path: success,
\* each classified failure, and an exception that escapes _api_post.
C9_ClientReleased ==
    \A i \in Calls :
        /\ pc[i] = "idle" => client[i] = 0
        /\ pc[i] = "awaiting" => client[i] # 0 /\ client[i] \in open
        /\ Returned(i) => client[i] # 0 /\ client[i] \notin open
        /\ \A j \in Calls :
            (i # j /\ pc[i] # "idle" /\ pc[j] # "idle") => client[i] # client[j]

C9_Witness ==
    /\ Returned(1) /\ Escaped(1) /\ client[1] \notin open
    /\ Returned(2) /\ TimedOut(2) /\ client[2] \notin open
    /\ open = {}

\* C10: an invocation whose POST is bound to end (by completing or by a
\* timeout expiring) eventually returns, whether or not any other
\* invocation ever does.
C10_EventuallyReturns ==
    \A i \in Calls :
        WF_vars(Complete(i)) => ((pc[i] = "awaiting") ~> Returned(i))

C10_Witness ==
    /\ Returned(1) /\ outcome[1].exc.cls = "ReadTimeout"
    /\ pc[2] = "awaiting"

====
